---- MODULE Spec2Model ----
(***************************************************************************)
(* Model of sim_energy_system_cap.py: a solar-charged capacitor node that  *)
(* powers a switched constant-power load, integrated with a fixed step.    *)
(*                                                                         *)
(* Numbers.  The script works on Python floats.  Here every float is a     *)
(* fixed-point integer counting units of 1/SCALE (SCALE = 100: 546 stands  *)
(* for 5.46).  Products and quotients are truncated to that grid.  The one *)
(* exception is the discriminant, which is kept in units of 1/SCALE^2 so   *)
(* that the square is exact; its square root is again in units of 1/SCALE. *)
(* Python raises ZeroDivisionError on a float division by zero and         *)
(* ValueError on math.sqrt of a negative number: both end the script, which*)
(* is the control state "crashed".  Because of the truncation a comparison  *)
(* that is within one grid unit of its threshold may go the other way than *)
(* in floating point; the control structure is the script's.               *)
(***************************************************************************)
EXTENDS Integers, Sequences, FiniteSets

VARIABLES
    sa_m2, eff, voc, c_f, r_esr, q0_c, p_on_w, v_thresh, dt_s, dur_s,
    isc_a, i1_a, qt_c, p_mode_w, t_s, node_discr, node_v, i3_a, log,
    pc,
    q_raw, i_int, p_prev, p_solve, i_solve

params == <<sa_m2, eff, voc, c_f, r_esr, q0_c, p_on_w, v_thresh, dt_s, dur_s>>
state  == <<isc_a, i1_a, qt_c, p_mode_w, t_s, node_discr, node_v, i3_a, log>>
probes == <<q_raw, i_int, p_prev, p_solve, i_solve>>
vars   == <<params, state, pc, probes>>

\* ---------------------------------------------------------------- numbers
SCALE == 100
MaxSteps == 6

irr_w_m2 == 136610

Mul(a, b) == (a * b) \div SCALE
Div(a, b) == (a * SCALE) \div b

RECURSIVE SqrtSearch(_, _, _)
SqrtSearch(n, lo, hi) ==
    IF lo >= hi THEN lo
    ELSE LET mid == (lo + hi + 1) \div 2
         IN  IF mid * mid <= n THEN SqrtSearch(n, mid, hi)
                               ELSE SqrtSearch(n, lo, mid - 1)

sqrt(n) == SqrtSearch(n, 0, IF n < 46340 THEN n ELSE 46340)

\* ------------------------------------------------------------- parameters
SaSet      == {0, 1, 100}
EffSet     == {20}
VocSet     == {0, 200, 500}
CSet       == {0, 100}
EsrSet     == {0, 10}
Q0Set      == {0, 300}
POnSet     == {0, 400, 3000}
VThreshSet == {0, 150, 300}
DtSet      == {0, 100, 200}
DurSet     == {0, 250, 500}

\* -------------------------------------------------------------- functions
calc_solar_current(irr, sa, e, v) == Div(Mul(Mul(irr, sa), e), v)

calc_node_discr(q_c, c, i_a, esr_ohm, power_w) ==
    LET a == Div(q_c, c) + Mul(i_a, esr_ohm)
    IN  a * a - 4 * power_w * esr_ohm

\* Variant: the ESR term enters the root with the wrong sign.
calc_node_voltage_SignSlip(disc, q_c, c, i_a, esr_ohm) ==
    (Div(q_c, c) - Mul(i_a, esr_ohm) + sqrt(disc)) \div 2

calc_node_voltage(disc, q_c, c, i_a, esr_ohm) ==
    (Div(q_c, c) + Mul(i_a, esr_ohm) + sqrt(disc)) \div 2

\* ------------------------------------------------- pieces of the loop body
\* Variant: the loop also runs when the elapsed time equals the duration.
LoopCond_Inclusive(t) == t <= dur_s

LoopCond(t) == t < dur_s

LoadCurrent(p, v) == IF v > 0 THEN Div(p, v) ELSE 0

\* Variant: the charge is not clamped.
ClampCharge_None(q) == q

ClampCharge(q) == IF q < 0 THEN 0 ELSE q

\* Variant: the source current is not reset before the solve.
ResetSource_Omitted(i) == i

ResetSource(i) == isc_a

\* Variants: the load is never turned on; it is turned on whenever it is
\* off; it is turned on with the threshold in place of the on-state power.
TurnOn_Never(p, v) == p
TurnOn_Always(p, v) == IF p = 0 THEN p_on_w ELSE p
TurnOn_WrongValue(p, v) == IF p = 0 /\ v >= voc THEN v_thresh ELSE p

TurnOn(p, v) == IF p = 0 /\ v >= voc THEN p_on_w ELSE p

Fallback(disc, p) == IF disc < 0 THEN 0 ELSE p

\* Variant: the source current is never zeroed.
ClampSource_Never(i, v) == i

ClampSource(i, v) == IF voc <= v /\ i # 0 THEN 0 ELSE i

\* Variant: the load is never turned off.
TurnOff_Never(p, v) == p

TurnOff(p, v) == IF v < v_thresh THEN 0 ELSE p

\* ------------------------------------------------------------------ state
Init ==
    /\ sa_m2 \in SaSet
    /\ eff \in EffSet
    /\ voc \in VocSet
    /\ c_f \in CSet
    /\ r_esr \in EsrSet
    /\ q0_c \in Q0Set
    /\ p_on_w \in POnSet
    /\ v_thresh \in VThreshSet
    /\ dt_s \in DtSet
    /\ dur_s \in DurSet
    /\ isc_a = 0 /\ i1_a = 0 /\ qt_c = 0 /\ p_mode_w = 0 /\ t_s = 0
    /\ node_discr = 0 /\ node_v = 0 /\ i3_a = 0
    /\ log = <<>>
    /\ pc = "start"
    /\ q_raw = 0 /\ i_int = 0 /\ p_prev = 0 /\ p_solve = 0 /\ i_solve = 0

Crash ==
    /\ pc' = "crashed"
    /\ UNCHANGED <<params, state, probes>>

\* Lines 62-78: initial values.
Initialize ==
    /\ pc = "start"
    /\ IF voc = 0 \/ c_f = 0
       THEN Crash
       ELSE LET isc == calc_solar_current(irr_w_m2, sa_m2, eff, voc)
                d1  == calc_node_discr(q0_c, c_f, isc, r_esr, p_on_w)
                p2  == IF d1 < 0 THEN 0 ELSE p_on_w
                d2  == IF d1 < 0
                       THEN calc_node_discr(q0_c, c_f, isc, r_esr, p2)
                       ELSE d1
            IN  IF d2 < 0
                THEN Crash
                ELSE LET v == calc_node_voltage(d2, q0_c, c_f, isc, r_esr)
                     IN  /\ isc_a' = isc
                         /\ qt_c' = q0_c
                         /\ t_s' = 0
                         /\ node_discr' = d2
                         /\ node_v' = v
                         /\ i1_a' = IF voc <= v /\ isc # 0 THEN 0 ELSE isc
                         /\ p_mode_w' = IF v < v_thresh THEN 0 ELSE p2
                         /\ p_solve' = p2
                         /\ i_solve' = isc
                         /\ pc' = "run"
                         /\ UNCHANGED <<params, i3_a, log, q_raw, i_int, p_prev>>

\* Lines 82-105: one iteration of the simulation loop.
Step ==
    /\ pc = "run"
    /\ LoopCond(t_s)
    /\ Len(log) < MaxSteps
    /\ LET i3 == LoadCurrent(p_mode_w, node_v)
           qr == qt_c + Mul(i1_a - i3, dt_s)
           q  == ClampCharge(qr)
           i  == ResetSource(i1_a)
           p1 == TurnOn(p_mode_w, node_v)
           d1 == calc_node_discr(q, c_f, i, r_esr, p1)
           p2 == Fallback(d1, p1)
           d2 == IF d1 < 0 THEN calc_node_discr(q, c_f, i, r_esr, p2) ELSE d1
       IN  IF d2 < 0
           THEN Crash
           ELSE LET v == calc_node_voltage(d2, q, c_f, i, r_esr)
                IN  /\ i3_a' = i3
                    /\ qt_c' = q
                    /\ node_discr' = d2
                    /\ node_v' = v
                    /\ i1_a' = ClampSource(i, v)
                    /\ p_mode_w' = TurnOff(p2, v)
                    /\ log' = Append(log, <<t_s, v>>)
                    /\ t_s' = t_s + dt_s
                    /\ q_raw' = qr
                    /\ i_int' = i1_a
                    /\ p_prev' = p_mode_w
                    /\ p_solve' = p2
                    /\ i_solve' = i
                    /\ UNCHANGED <<params, isc_a, pc>>

\* Lines 82, 107-112: the loop condition fails and the log is written out.
Finish ==
    /\ pc = "run"
    /\ ~LoopCond(t_s)
    /\ pc' = "done"
    /\ UNCHANGED <<params, state, probes>>

Next == Initialize \/ Step \/ Finish

Spec == Init /\ [][Next]_vars

\* ================================================================= claims
Ceil(a, b) == (a + b - 1) \div b

StepTaken == pc = "run" /\ pc' = "run" /\ Len(log') = Len(log) + 1

InitInfeasible ==
    /\ voc # 0
    /\ c_f # 0
    /\ calc_node_discr(q0_c, c_f,
                       calc_solar_current(irr_w_m2, sa_m2, eff, voc),
                       r_esr, p_on_w) < 0

NoLoad == p_on_w = 0 /\ v_thresh = 0

\* C1 (as stated): with dt > 0 a completed run holds floor(duration/dt) + 1
\* samples.
C1_FloorPlusOne ==
    (pc = "done" /\ dt_s > 0) => Len(log) = dur_s \div dt_s + 1

\* C1 (amended): with dt > 0 a completed run holds one sample per loop
\* iteration, the k-th stamped (k-1)*dt, and the loop stops at the first
\* accumulated time that is not below the duration: ceil(duration/dt)
\* samples, none when the duration is 0.
C1_SampleCount ==
    (pc = "done" /\ dt_s > 0) =>
        /\ Len(log) = Ceil(dur_s, dt_s)
        /\ \A k \in 1..Len(log) : log[k][1] = (k - 1) * dt_s

C1_Witness ==
    /\ pc = "done" /\ dt_s > 0
    /\ dur_s % dt_s = 0
    /\ Len(log) >= 2
    /\ Len(log) = dur_s \div dt_s

\* C2: the stored charge is never negative, after initialization and after
\* every step.
C2_ChargeNonNegative == q0_c >= 0 /\ qt_c >= 0

C2_Witness == Len(log) >= 1 /\ q_raw < 0 /\ qt_c = 0

\* C3: the node voltage of every emitted sample is non-negative.
C3_VoltageNonNegative == \A k \in 1..Len(log) : log[k][2] >= 0

C3_Witness ==
    /\ Len(log) >= 2
    /\ p_solve > 0 /\ r_esr > 0
    /\ log[Len(log)][2] < log[Len(log) - 1][2]

\* C4: at the end of initialization and of every step, a node voltage below
\* v_thresh means the power mode is 0.
C4_TurnOff ==
    (pc \in {"run", "done"} /\ node_v < v_thresh) => p_mode_w = 0

C4_Witness ==
    /\ Len(log) >= 1
    /\ p_prev > 0 /\ p_solve > 0
    /\ node_v < v_thresh /\ p_mode_w = 0

\* C5 (as stated): a step that starts with the load off and the node voltage
\* at or above voc ends with p_mode = p_on whenever its solve with p_on is
\* feasible.
C5_TurnOnAsStated ==
    [][(/\ StepTaken
        /\ p_mode_w = 0 /\ node_v >= voc
        /\ calc_node_discr(qt_c', c_f, isc_a, r_esr, p_on_w) >= 0)
       => p_mode_w' = p_on_w]_vars

\* C5 (amended): in such a step the solve is done with p_on, and the step
\* ends with p_mode = p_on exactly when the solved voltage is not below
\* v_thresh; otherwise the turn-off check of the same step leaves it at 0.
C5_TurnOn ==
    [][(/\ StepTaken
        /\ p_mode_w = 0 /\ node_v >= voc
        /\ calc_node_discr(qt_c', c_f, isc_a, r_esr, p_on_w) >= 0)
       => /\ p_solve' = p_on_w
          /\ node_v' >= v_thresh => p_mode_w' = p_on_w
          /\ node_v' < v_thresh => p_mode_w' = 0]_vars

C5_Witness ==
    /\ Len(log) >= 1
    /\ p_on_w > 0 /\ p_prev = 0
    /\ p_solve = p_on_w /\ p_mode_w = p_on_w

\* C6: a run with dt = 0 and duration > 0 is rejected before any sample is
\* produced.
C6_RejectedBeforeSamples ==
    (dt_s = 0 /\ dur_s > 0) => (pc # "done" /\ Len(log) = 0)

\* C7: when the initial discriminant with p_on is negative, initialization
\* ends with p_mode = 0 and a zero-load voltage, the script does not fail in
\* the square root, and the first emitted sample is a zero-load solve.
C7_InitialFallback ==
    InitInfeasible =>
        /\ pc # "crashed"
        /\ (pc = "run" /\ Len(log) = 0) =>
               /\ p_mode_w = 0
               /\ node_v = calc_node_voltage(
                               calc_node_discr(q0_c, c_f, isc_a, r_esr, 0),
                               q0_c, c_f, isc_a, r_esr)
        /\ Len(log) = 1 =>
               /\ p_solve = 0
               /\ log[1][2] = calc_node_voltage(
                                  calc_node_discr(qt_c, c_f, isc_a, r_esr, 0),
                                  qt_c, c_f, isc_a, r_esr)

C7_Witness ==
    /\ InitInfeasible
    /\ Len(log) = 1
    /\ log[1][2] > 0
    /\ qt_c > q0_c

C9_PowerModeBinary == pc # "start" => p_mode_w \in {0, p_on_w}

C9_Witness ==
    /\ Len(log) >= 1
    /\ p_on_w > 0
    /\ p_prev = p_on_w /\ p_mode_w = 0

\* C10: every step solves the node voltage with the full source current
\* Isc; the clamp only decides the current integrated by the next step,
\* which is 0 when the previous node voltage was at or above voc and Isc
\* otherwise.
C10_ClampOrdering ==
    [][StepTaken
       => /\ i_solve' = isc_a
          /\ node_v' = calc_node_voltage(node_discr', qt_c', c_f, isc_a, r_esr)
          /\ i_int' = (IF node_v >= voc THEN 0 ELSE isc_a)
          /\ q_raw' = qt_c + Mul((IF node_v >= voc THEN 0 ELSE isc_a) - i3_a',
                                 dt_s)]_vars

C10_Witness ==
    /\ Len(log) >= 2
    /\ isc_a > 0 /\ dt_s > 0
    /\ i_int = 0
    /\ i1_a = isc_a

====
